---- MODULE Spec2Model ----
(***************************************************************************)
(* A model of libcodechecker/server/session_manager.py: the _Session       *)
(* record with its sliding lifetime, and the SessionManager with its       *)
(* in-memory session list, the optional database of session records, the   *)
(* credential validators and the pruning pass driven by the login counter. *)
(*                                                                         *)
(* Time is a discrete clock `now`; one handler runs at one instant.  A     *)
(* database call is a scoped transaction that may throw: `fault` says      *)
(* where the store fails for the duration of one handler ("connect": the   *)
(* call that opens the transaction throws, "op": the query / delete /      *)
(* commit throws, "none": nothing throws).                                 *)
(***************************************************************************)
EXTENDS Integers, Sequences, FiniteSets, TLC

\* ---------------------------------------------------------------- bounds
MaxTime == 2            \* the clock runs 0..MaxTime
MaxSessions == 2        \* cap on the length of the in-memory session list
NumThreads == 2         \* request threads that run handlers concurrently

\* The tokens generate_session_token() hands out; NoToken is no token.
Tokens == {"t1", "t2"}
NoToken == ""

\* ------------------------------------------------------- configuration
\* auth_config['session_lifetime'] and auth_config['logins_until_cleanup'],
\* in clock units.
session_lifetime == 1
logins_until_cleanup == 3

\* Modules whose import failed.
UNSUPPORTED_METHODS == {}

\* A credential string is modelled by its colon separated fields:
\* "alice:secret" is <<"alice", "secret">>, "carol:p:q" is <<"carol","p","q">>.
RootAuth == <<"root", "adminpw">>
AliceAuth == <<"alice", "secret">>
EveAuth == <<"eve", "bad">>
CarolAuth == <<"carol", "p", "q">>

\* The credential strings clients present.
AuthStrings == {RootAuth, AliceAuth, EveAuth, CarolAuth}

\* auth_config: the root hash is modelled by the string it is the hash of.
auth_config ==
    [method_root |-> RootAuth,
     method_dictionary |-> [enabled |-> TRUE,
                            auths |-> {AliceAuth},
                            groups |-> [alice |-> <<"dev">>]],
     method_pam |-> [enabled |-> TRUE],
     method_ldap |-> [enabled |-> FALSE]]

\* What the operating system's PAM module accepts (cc_pam.auth_user).
PamAccepts == {<<"alice", "secret">>}

\* ------------------------------------------------------------- state
VARIABLES
    enabled,              \* auth_config['enabled']
    database_connection,  \* SessionManager.__database_connection is set
    sessions,             \* SessionManager.__sessions, a list of _Session
    logins_since_prune,   \* SessionManager.__logins_since_prune
    db,                   \* the database's table of SessionRecord rows
    system_permission,    \* the database's SystemPermission names
    now,                  \* datetime.now()
    result,               \* what the last call was and what it returned
    threads               \* where each request thread is in its handler

vars == <<enabled, database_connection, sessions, logins_since_prune, db,
          system_permission, now, result, threads>>

Threads == 1..NumThreads

Faults == {"none", "connect", "op"}

\* The value of a call that returns no session (None).
NoSession ==
    [token |-> NoToken, user |-> "", groups |-> <<>>, root |-> FALSE,
     last_access |-> 0, database |-> FALSE]

\* auth is the credential string of a login, idx the place in the session
\* list of the session a revalidate() was called on; had says that an
\* invalidate found the token, or that a login's pruning pass found a dead
\* session; the path of a login is "reused" when it returned the token of a
\* live session of the list.
NoResult ==
    [op |-> "none", token |-> NoToken, fault |-> "none",
     ret |-> "none", sess |-> NoSession, path |-> "none", pruned |-> FALSE,
     valid |-> FALSE, had |-> FALSE, auth |-> <<>>, idx |-> 0]

\* Some session of the list ss / some row of the table d carries the token.
HasSession(ss, token) == \E i \in 1..Len(ss) : ss[i].token = token
HasRecord(d, token) == \E i \in 1..Len(d) : d[i].token = token

\* The element of a set of one element.
Only(S) == CHOOSE x \in S : TRUE

\* ------------------------------------------------------------ _Session
\* _Session.__init__
Session(token, username, groups, is_root, database, last_access) ==
    [token |-> token, user |-> username, groups |-> groups, root |-> is_root,
     last_access |-> last_access, database |-> database]

\* _Session.is_alive at time t
is_alive(s, t) == t - s.last_access <= session_lifetime

\* SessionRecord.__init__(token, user_name, groups): database/config_db_model
\* stamps last_access with the time of construction.
SessionRecord(token, user_name, groups, t) ==
    [token |-> token, user_name |-> user_name, groups |-> groups,
     last_access |-> t]

\* The first row of d with the given token, as query(...).limit(1)
\* .one_or_none() finds it; 0 when there is none.
db_index(d, token) ==
    LET hits == {i \in 1..Len(d) : d[i].token = token}
    IN IF hits = {} THEN 0 ELSE CHOOSE i \in hits : \A j \in hits : i <= j

\* ';'.join(groups): a string is modelled as the sequence of its group names
\* and ";" separators; the empty name "" contributes no characters.
RECURSIVE join(_)
join(groups) ==
    IF groups = <<>> THEN <<>>
    ELSE LET head == IF groups[1] = "" THEN <<>> ELSE <<groups[1]>>
         IN IF Len(groups) = 1 THEN head
            ELSE head \o <<";">> \o join(Tail(groups))

\* str.split(';'): the fields between the separators; the empty string has
\* one field, the empty name.
RECURSIVE split(_)
split(str) ==
    LET seps == {i \in 1..Len(str) : str[i] = ";"}
    IN IF seps = {}
       THEN IF str = <<>> THEN <<"">> ELSE <<str[1]>>
       ELSE LET k == CHOOSE i \in seps : \A j \in seps : i <= j
                first == IF k = 1 THEN "" ELSE str[1]
            IN <<first>> \o split(SubSeq(str, k + 1, Len(str)))

\* revalidate without the update of the database row (lines 83-100).
revalidate_local_only(s, d, t, fault) ==
    IF ~is_alive(s, t)
    THEN [sess |-> s, db |-> d, raised |-> FALSE]
    ELSE [sess |-> [s EXCEPT !.last_access = t], db |-> d,
          raised |-> s.database /\ fault = "connect"]

\* revalidate without the `if not self.is_alive: return` of lines 78-79.
revalidate_always(s, d, t, fault) ==
    LET s2 == [s EXCEPT !.last_access = t]
        i == db_index(d, s.token)
    IN IF ~s.database
       THEN [sess |-> s2, db |-> d, raised |-> FALSE]
       ELSE IF fault = "connect"
       THEN [sess |-> s2, db |-> d, raised |-> TRUE]
       ELSE IF fault = "op" \/ i = 0
       THEN [sess |-> s2, db |-> d, raised |-> FALSE]
       ELSE [sess |-> s2, db |-> [d EXCEPT ![i].last_access = t],
             raised |-> FALSE]

\* _Session.revalidate at time t: the session after the call, the database
\* after it, and whether the call raised.
revalidate(s, d, t, fault) ==
    IF ~is_alive(s, t)
    THEN [sess |-> s, db |-> d, raised |-> FALSE]
    ELSE LET s2 == [s EXCEPT !.last_access = t]
             i == db_index(d, s.token)
         IN IF ~s.database
            THEN [sess |-> s2, db |-> d, raised |-> FALSE]
            ELSE IF fault = "connect"
            \* self.__database() throws inside the try: the except logs it,
            \* and `finally: transaction.close()` reads an unbound local.
            THEN [sess |-> s2, db |-> d, raised |-> TRUE]
            ELSE IF fault = "op" \/ i = 0
            THEN [sess |-> s2, db |-> d, raised |-> FALSE]
            ELSE [sess |-> s2,
                  db |-> [d EXCEPT ![i].last_access = t],
                  raised |-> FALSE]

\* ------------------------------------------------------- SessionManager
\* invalidate without the deletion of the database row.
invalidate_keeps_row(ss, d, conn, token, fault) ==
    IF conn /\ fault = "connect"
    THEN [sessions |-> ss, db |-> d, ret |-> "raised"]
    ELSE [sessions |-> SelectSeq(ss, LAMBDA s : s.token # token), db |-> d,
          ret |-> IF conn /\ fault = "op" THEN "false" ELSE "true"]

\* invalidate reporting failure when it found nothing to remove.
invalidate_strict(ss, d, conn, token, fault) ==
    IF conn /\ fault = "connect"
    THEN [sessions |-> ss, db |-> d, ret |-> "raised"]
    ELSE [sessions |-> SelectSeq(ss, LAMBDA s : s.token # token),
          db |-> IF conn /\ fault = "none"
                 THEN SelectSeq(d, LAMBDA r : r.token # token) ELSE d,
          ret |-> IF (conn /\ fault = "op")
                     \/ ~(HasSession(ss, token) \/ HasRecord(d, token))
                  THEN "false" ELSE "true"]

\* SessionManager.invalidate: the session list and the database after the
\* call, and what it returned ("true", "false") or "raised".
invalidate(ss, d, conn, token, fault) ==
    IF conn /\ fault = "connect"
    \* self.__database_connection() throws before the local removal: the
    \* except logs it, and `finally: if transaction` reads an unbound local.
    THEN [sessions |-> ss, db |-> d, ret |-> "raised"]
    ELSE LET ss2 == SelectSeq(ss, LAMBDA s : s.token # token)
         IN IF ~conn
            THEN [sessions |-> ss2, db |-> d, ret |-> "true"]
            ELSE IF fault = "op"
            THEN [sessions |-> ss2, db |-> d, ret |-> "false"]
            ELSE [sessions |-> ss2,
                  db |-> SelectSeq(d, LAMBDA r : r.token # token),
                  ret |-> "true"]

\* SessionManager._get_local_session_from_db
get_local_session_from_db(d, conn, perm, token, fault) ==
    LET i == db_index(d, token)
    IN IF ~conn THEN [ret |-> "none", sess |-> NoSession]
       ELSE IF fault = "connect" THEN [ret |-> "raised", sess |-> NoSession]
       ELSE IF fault = "op" \/ i = 0 THEN [ret |-> "none", sess |-> NoSession]
       ELSE [ret |-> "session",
             sess |-> Session(token, d[i].user_name, split(d[i].groups),
                              d[i].user_name \in perm, conn,
                              d[i].last_access)]

\* The scan of the list with the found session revalidated.
cached_session_refreshed(ss, token, t) ==
    LET hits == {i \in 1..Len(ss) : is_alive(ss[i], t) /\ ss[i].token = token}
    IN IF hits = {} THEN [idx |-> 0, sess |-> NoSession]
       ELSE LET i == CHOOSE i \in hits : \A j \in hits : i <= j
            IN [idx |-> i, sess |-> [ss[i] EXCEPT !.last_access = t]]

\* get_session, lines 470-472: the first session of the list that is alive
\* and carries the token, and its place in the list; idx 0 when there is none.
cached_session(ss, token, t) ==
    LET hits == {i \in 1..Len(ss) : is_alive(ss[i], t) /\ ss[i].token = token}
    IN IF hits = {} THEN [idx |-> 0, sess |-> NoSession]
       ELSE LET i == CHOOSE i \in hits : \A j \in hits : i <= j
            IN [idx |-> i, sess |-> ss[i]]

\* get_session, lines 479-481: no live session was found; `inv` is what
\* invalidate(token) does.  `return local_session`: the object built from the
\* database row is returned also when it is dead.
get_session_dead(ss, d, local, inv) ==
    IF inv.ret = "raised"
    THEN [sessions |-> ss, db |-> d, ret |-> "raised", sess |-> NoSession,
          idx |-> 0, path |-> "raised"]
    ELSE [sessions |-> inv.sessions, db |-> inv.db, ret |-> local.ret,
          sess |-> local.sess, idx |-> 0,
          path |-> IF local.ret = "session" THEN "db_dead" ELSE "absent"]

\* get_session, lines 474-481: the list holds no live session for the token;
\* `local` is what _get_local_session_from_db(token) returned.
get_session_from_db(ss, d, conn, token, t, fault, local) ==
    IF local.ret = "raised"
    THEN [sessions |-> ss, db |-> d, ret |-> "raised", sess |-> NoSession,
          idx |-> 0, path |-> "raised"]
    ELSE IF local.ret = "session" /\ is_alive(local.sess, t)
    THEN [sessions |-> Append(ss, local.sess), db |-> d, ret |-> "session",
          sess |-> local.sess, idx |-> Len(ss) + 1, path |-> "db_live"]
    ELSE Only({get_session_dead(ss, d, local, inv) :
                  inv \in {invalidate(ss, d, conn, token, fault)}})

\* get_session, lines 470-472: `hit` is what the scan of the list found.
get_session_scanned(ss, d, conn, perm, token, t, fault, hit) ==
    IF hit.idx # 0
    THEN [sessions |-> ss, db |-> d, ret |-> "session", sess |-> hit.sess,
          idx |-> hit.idx, path |-> "cache"]
    ELSE Only({get_session_from_db(ss, d, conn, token, t, fault, local) :
             local \in {get_local_session_from_db(d, conn, perm, token,
                                                  fault)}})

\* SessionManager.get_session, authentication enabled.  idx is the place of
\* the returned object in the session list, 0 when it is not in the list.
get_session(ss, d, conn, perm, token, t, fault) ==
    Only({get_session_scanned(ss, d, conn, perm, token, t, fault, hit) :
             hit \in {cached_session(ss, token, t)}})

\* SessionManager.__cleanup_sessions: invalidate the collected tokens one by
\* one; an invalidate that raises ends the pass.
RECURSIVE cleanup_loop(_, _, _, _, _)
cleanup_loop(tokens, ss, d, conn, fault) ==
    IF tokens = <<>>
    THEN [sessions |-> ss, db |-> d, raised |-> FALSE]
    ELSE IF conn /\ fault = "connect"
    THEN [sessions |-> ss, db |-> d, raised |-> TRUE]
    ELSE Only({cleanup_loop(Tail(tokens), inv.sessions, inv.db, conn, fault) :
                  inv \in {invalidate(ss, d, conn, tokens[1], fault)}})

\* The tokens of all the sessions, alive or not.
all_tokens(ss, t) == [i \in 1..Len(ss) |-> ss[i].token]

\* __cleanup_sessions, lines 515-516: the tokens of the dead sessions.
dead_tokens(ss, t) ==
    LET dead == SelectSeq(ss, LAMBDA s : ~is_alive(s, t))
    IN [i \in 1..Len(dead) |-> dead[i].token]

\* A pruning pass that invalidates nothing.
cleanup_nothing(ss, d, conn, t, fault) ==
    [sessions |-> ss, db |-> d, raised |-> FALSE]

cleanup_sessions(ss, d, conn, t, fault) ==
    cleanup_loop(dead_tokens(ss, t), ss, d, conn, fault)

\* create_or_get_session, lines 362-365: the pruning pass ran; `c` is what it
\* left.
pruned_login(c) ==
    [sessions |-> c.sessions, db |-> c.db, raised |-> c.raised,
     logins |-> 0, pruned |-> TRUE]

\* The login counted with the pruning one call late (`>` for `>=`).
count_login_late(ss, d, n, conn, t, fault) ==
    IF n + 1 > logins_until_cleanup
    THEN Only({pruned_login(c) :
                  c \in {cleanup_sessions(ss, d, conn, t, fault)}})
    ELSE [sessions |-> ss, db |-> d, raised |-> FALSE,
          logins |-> n + 1, pruned |-> FALSE]

\* create_or_get_session, lines 362-365: count the login and prune when the
\* counter reaches the threshold.
count_login(ss, d, n, conn, t, fault) ==
    IF n + 1 >= logins_until_cleanup
    THEN Only({pruned_login(c) :
                  c \in {cleanup_sessions(ss, d, conn, t, fault)}})
    ELSE [sessions |-> ss, db |-> d, raised |-> FALSE,
          logins |-> n + 1, pruned |-> FALSE]

\* ----------------------------------------------------------- validators
Rejected == [kind |-> "rejected", username |-> "", groups |-> <<>>,
             root |-> FALSE]
ValidationRaised == [kind |-> "raised", username |-> "", groups |-> <<>>,
                     root |-> FALSE]
Validation(username, groups, root) ==
    [kind |-> "ok", username |-> username, groups |-> groups, root |-> root]

\* SessionManager.get_user_name: auth_string.split(':')[0]
get_user_name(auth_string) == auth_string[1]

\* SessionManager.__is_method_enabled
is_method_enabled(method) ==
    /\ method \notin UNSUPPORTED_METHODS
    /\ CASE method = "dictionary" -> auth_config.method_dictionary.enabled
         [] method = "pam" -> auth_config.method_pam.enabled
         [] method = "ldap" -> auth_config.method_ldap.enabled
         [] OTHER -> FALSE

\* SessionManager.__try_auth_root
try_auth_root(auth_string) ==
    IF auth_string = auth_config.method_root
    THEN Validation(get_user_name(auth_string), <<>>, TRUE)
    ELSE Rejected

\* SessionManager.__try_auth_dictionary
try_auth_dictionary(auth_string) ==
    IF /\ is_method_enabled("dictionary")
       /\ auth_string \in auth_config.method_dictionary.auths
    THEN Validation(get_user_name(auth_string),
                    IF get_user_name(auth_string) \in
                           DOMAIN auth_config.method_dictionary.groups
                    THEN auth_config.method_dictionary.groups[
                             get_user_name(auth_string)]
                    ELSE <<>>,
                    FALSE)
    ELSE Rejected

\* SessionManager.__try_auth_pam: `username, password = auth_string.split(':')`
\* raises ValueError unless there are exactly two fields.
try_auth_pam(auth_string) ==
    IF ~is_method_enabled("pam") THEN Rejected
    ELSE IF Len(auth_string) # 2 THEN ValidationRaised
    ELSE IF <<auth_string[1], auth_string[2]>> \in PamAccepts
    THEN Validation(auth_string[1], <<>>, FALSE)
    ELSE Rejected

\* SessionManager.__try_auth_ldap; no authority is configured.
try_auth_ldap(auth_string) ==
    IF ~is_method_enabled("ldap") THEN Rejected
    ELSE IF Len(auth_string) # 2 THEN ValidationRaised
    ELSE Rejected

\* `validation = first; if validation: return validation`, else the rest.
first_accepting(first, rest) ==
    IF first.kind # "rejected" THEN first ELSE rest

\* SessionManager.__handle_validation
handle_validation(auth_string) ==
    first_accepting(try_auth_dictionary(auth_string),
        first_accepting(try_auth_pam(auth_string),
                        try_auth_ldap(auth_string)))

\* create_or_get_session, lines 367-374: root first, then the other methods.
validate(auth_string) ==
    first_accepting(try_auth_root(auth_string),
                    handle_validation(auth_string))

\* get_db_session_tokens finding no row for the user.
no_db_session_tokens(d, conn, user_name, fault) ==
    IF ~conn THEN [ret |-> "none", tokens |-> <<>>]
    ELSE IF fault = "connect" THEN [ret |-> "raised", tokens |-> <<>>]
    ELSE IF fault = "op" THEN [ret |-> "none", tokens |-> <<>>]
    ELSE [ret |-> "tokens", tokens |-> <<>>]

\* SessionManager.get_db_session_tokens: "tokens" with the list, "none" for
\* None, or "raised".
get_db_session_tokens(d, conn, user_name, fault) ==
    LET rows == SelectSeq(d, LAMBDA r : r.user_name = user_name)
    IN IF ~conn THEN [ret |-> "none", tokens |-> <<>>]
       ELSE IF fault = "connect" THEN [ret |-> "raised", tokens |-> <<>>]
       ELSE IF fault = "op" THEN [ret |-> "none", tokens |-> <<>>]
       ELSE [ret |-> "tokens",
             tokens |-> [i \in 1..Len(rows) |-> rows[i].token]]

\* transaction.add(record); transaction.commit(): the table is keyed by the
\* token, so the commit of a second row with a token throws.
db_insert(d, record) ==
    IF HasRecord(d, record.token) THEN d ELSE Append(d, record)

\* create_or_get_session, lines 396-409: store the new session's record; an
\* exception of the database is logged.
store_record(d, conn, record, fault) ==
    IF ~conn THEN [db |-> d, raised |-> FALSE]
    ELSE IF fault = "connect" THEN [db |-> d, raised |-> TRUE]
    ELSE IF fault = "op" THEN [db |-> d, raised |-> FALSE]
    ELSE [db |-> db_insert(d, record), raised |-> FALSE]

\* What create_or_get_session leaves behind when it raises.
Raised(ss, d, n, pruned, valid) ==
    [sessions |-> ss, db |-> d, logins |-> n, ret |-> "raised",
     sess |-> NoSession, token |-> NoToken, pruned |-> pruned, valid |-> valid,
     issued |-> FALSE]

\* create_or_get_session, lines 384-385 and 411: a session was found; `rv`
\* is what its revalidate() did.
login_found(c, g, token, issued, rv) ==
    [sessions |-> IF g.idx = 0 THEN g.sessions
                  ELSE [g.sessions EXCEPT ![g.idx] = rv.sess],
     db |-> rv.db, logins |-> c.logins,
     ret |-> IF rv.raised THEN "raised" ELSE "session",
     sess |-> IF rv.raised THEN NoSession ELSE rv.sess,
     token |-> token, pruned |-> c.pruned, valid |-> TRUE, issued |-> issued]

\* create_or_get_session, lines 386-411: no session was found; `new` is the
\* session made for the login and `st` what storing its record did.
login_created(c, g, token, issued, new, st) ==
    [sessions |-> Append(g.sessions, new), db |-> st.db, logins |-> c.logins,
     ret |-> IF st.raised THEN "raised" ELSE "session",
     sess |-> IF st.raised THEN NoSession ELSE new,
     token |-> token, pruned |-> c.pruned, valid |-> TRUE, issued |-> issued]

\* create_or_get_session, lines 382-411: `g` is what get_session(token) did.
login_session(c, validation, conn, t, fault, token, issued, g) ==
    IF g.ret = "raised"
    THEN [Raised(g.sessions, g.db, c.logins, c.pruned, TRUE)
             EXCEPT !.issued = issued]
    ELSE IF g.ret = "session"
    THEN Only({login_found(c, g, token, issued, rv) :
                  rv \in {revalidate(g.sess, g.db, t, fault)}})
    ELSE Only({login_created(c, g, token, issued,
                   Session(token, validation.username, validation.groups,
                           validation.root, conn, t), st) :
             st \in {store_record(g.db, conn,
                         SessionRecord(token, validation.username,
                                       join(validation.groups), t), fault)}})

\* create_or_get_session, lines 379-382: `tokens` is what
\* get_db_session_tokens(user_name) returned; `len(tokens)` raises TypeError
\* when it is None.
login_token(c, validation, conn, perm, t, fault, fresh, tokens) ==
    IF tokens.ret # "tokens"
    THEN Raised(c.sessions, c.db, c.logins, c.pruned, TRUE)
    ELSE IF tokens.tokens = <<>>
    THEN Only({login_session(c, validation, conn, t, fault, fresh, TRUE, g) :
             g \in {get_session(c.sessions, c.db, conn, perm, fresh, t,
                                fault)}})
    ELSE Only({login_session(c, validation, conn, t, fault, tokens.tokens[1],
                             FALSE, g) :
             g \in {get_session(c.sessions, c.db, conn, perm,
                                tokens.tokens[1], t, fault)}})

\* create_or_get_session, lines 367-379: `c` is what counting the login left
\* and `validation` what the validators answered.
login_validated(c, validation, conn, perm, t, fault, fresh) ==
    IF c.raised \/ validation.kind = "raised"
    THEN Raised(c.sessions, c.db, c.logins, c.pruned, FALSE)
    ELSE IF validation.kind = "rejected"
    THEN [sessions |-> c.sessions, db |-> c.db, logins |-> c.logins,
          ret |-> "rejected", sess |-> NoSession, token |-> NoToken,
          pruned |-> c.pruned, valid |-> FALSE, issued |-> FALSE]
    ELSE Only({login_token(c, validation, conn, perm, t, fault, fresh, k) :
             k \in {get_db_session_tokens(c.db, conn, validation.username,
                                          fault)}})

\* SessionManager.create_or_get_session, authentication enabled, from the
\* increment of the login counter on.  `fresh` is the token
\* generate_session_token() returns if it is called.
create_or_get_session(ss, d, n, conn, perm, auth_string, t, fault, fresh) ==
    Only({login_validated(c, v, conn, perm, t, fault, fresh) :
             c \in {count_login(ss, d, n, conn, t, fault)},
             v \in {validate(auth_string)}})

\* The tokens no session and no record carries: generate_session_token()
\* draws 128 random bits, so it returns none that is in use.
UnusedTokens(ss, d) ==
    Tokens \ ({ss[i].token : i \in 1..Len(ss)} \cup
              {d[i].token : i \in 1..Len(d)})

\* A request thread that runs no handler.
Idle ==
    [pc |-> "idle", op |-> "none", token |-> NoToken, i |-> 0,
     local |-> [ret |-> "none", sess |-> NoSession],
     validation |-> Rejected, found |-> NoSession]

\* ------------------------------------------------------------- actions
Init ==
    /\ enabled \in BOOLEAN
    /\ database_connection = FALSE
    /\ sessions = <<>>
    /\ logins_since_prune = 0
    /\ db = <<>>
    /\ system_permission = {}
    /\ now = 0
    /\ result = NoResult
    /\ threads = [th \in Threads |-> Idle]

\* Time passes.
Tick ==
    /\ now < MaxTime
    /\ now' = now + 1
    /\ result' = [NoResult EXCEPT !.op = "tick"]
    /\ UNCHANGED <<enabled, database_connection, sessions, logins_since_prune,
                   db, system_permission, threads>>

\* SessionManager.set_database_connection
SetDatabaseConnection(connection) ==
    /\ database_connection' = connection
    /\ result' = [NoResult EXCEPT !.op = "set_db"]
    /\ UNCHANGED <<enabled, sessions, logins_since_prune, db,
                   system_permission, now, threads>>

\* get_session returned (or raised): r is what it did.
GetSessionDone(token, fault, r) ==
    /\ Len(r.sessions) <= MaxSessions
    /\ sessions' = r.sessions
    /\ db' = r.db
    /\ result' = [NoResult EXCEPT !.op = "get", !.token = token,
                                  !.fault = fault, !.ret = r.ret,
                                  !.sess = r.sess, !.path = r.path]

\* SessionManager.get_session(token)
GetSession(token, fault) ==
    /\ IF enabled
       THEN \E r \in {get_session(sessions, db, database_connection,
                                   system_permission, token, now, fault)} :
                GetSessionDone(token, fault, r)
       ELSE /\ UNCHANGED <<sessions, db>>
            /\ result' = [NoResult EXCEPT !.op = "get", !.token = token,
                                          !.fault = fault,
                                          !.path = "disabled"]
    /\ UNCHANGED <<enabled, database_connection, logins_since_prune,
                   system_permission, now, threads>>

\* invalidate returned (or raised): r is what it did.
InvalidateDone(token, fault, r) ==
    /\ sessions' = r.sessions
    /\ db' = r.db
    /\ result' = [NoResult EXCEPT !.op = "invalidate", !.token = token,
                                  !.fault = fault, !.ret = r.ret,
                                  !.had = HasSession(sessions, token)
                                          \/ HasRecord(db, token)]

\* SessionManager.invalidate(token)
Invalidate(token, fault) ==
    /\ \E r \in {invalidate(sessions, db, database_connection, token,
                            fault)} :
           InvalidateDone(token, fault, r)
    /\ UNCHANGED <<enabled, database_connection, logins_since_prune,
                   system_permission, now, threads>>

\* create_or_get_session returned (or raised): r is what it did.
CreateOrGetSessionDone(auth_string, fault, fresh, r) ==
    /\ IF r.issued THEN fresh \in UnusedTokens(sessions, db) ELSE fresh = NoToken
    /\ Len(r.sessions) <= MaxSessions
    /\ sessions' = r.sessions
    /\ db' = r.db
    /\ logins_since_prune' = r.logins
    /\ result' = [NoResult EXCEPT !.op = "create", !.token = r.token,
                                  !.fault = fault, !.ret = r.ret,
                                  !.sess = r.sess, !.pruned = r.pruned,
                                  !.valid = r.valid, !.auth = auth_string,
                                  !.had = r.pruned /\
                                          dead_tokens(sessions, now) # <<>>,
                                  !.path =
                                      IF /\ r.ret = "session"
                                         /\ cached_session(sessions, r.token,
                                                           now).idx # 0
                                      THEN "reused" ELSE "none"]

\* create_or_get_session without the `if not enabled: return None` of
\* lines 358-359.
CreateOrGetSessionUnguarded(auth_string, fault, fresh) ==
    /\ \E r \in {create_or_get_session(sessions, db, logins_since_prune,
                                       database_connection, system_permission,
                                       auth_string, now, fault, fresh)} :
           CreateOrGetSessionDone(auth_string, fault, fresh, r)
    /\ UNCHANGED <<enabled, database_connection, system_permission, now,
                   threads>>

\* SessionManager.create_or_get_session(auth_string)
CreateOrGetSession(auth_string, fault, fresh) ==
    /\ IF enabled
       THEN \E r \in {create_or_get_session(sessions, db, logins_since_prune,
                                      database_connection, system_permission,
                                      auth_string, now, fault, fresh)} :
                CreateOrGetSessionDone(auth_string, fault, fresh, r)
       ELSE /\ fresh = NoToken
            /\ UNCHANGED <<sessions, db, logins_since_prune>>
            /\ result' = [NoResult EXCEPT !.op = "create", !.fault = fault,
                                          !.path = "disabled",
                                          !.auth = auth_string]
    /\ UNCHANGED <<enabled, database_connection, system_permission, now,
                   threads>>

\* revalidate returned (or raised): r is what it did.
RevalidateDone(i, fault, r) ==
    /\ sessions' = [sessions EXCEPT ![i] = r.sess]
    /\ db' = r.db
    /\ result' = [NoResult EXCEPT !.op = "revalidate",
                                  !.token = sessions[i].token,
                                  !.fault = fault,
                                  !.ret = IF r.raised THEN "raised"
                                          ELSE "none",
                                  !.sess = r.sess, !.idx = i]

\* _Session.revalidate() called by the holder of the i-th session object.
Revalidate(i, fault) ==
    /\ \E r \in {revalidate(sessions[i], db, now, fault)} :
           RevalidateDone(i, fault, r)
    /\ UNCHANGED <<enabled, database_connection, logins_since_prune,
                   system_permission, now, threads>>

\* SessionManager.__init__ in a new process, which reads its configuration
\* anew: the database outlives it.
Restart ==
    /\ enabled' \in BOOLEAN
    /\ database_connection' = FALSE
    /\ logins_since_prune' = 0
    /\ sessions' = <<>>
    /\ result' = [NoResult EXCEPT !.op = "restart"]
    /\ threads' = [th \in Threads |-> Idle]
    /\ UNCHANGED <<db, system_permission, now>>

DbFaults == IF database_connection THEN Faults ELSE {"none"}

Next ==
    \/ Tick
    \/ Restart
    \/ \E c \in BOOLEAN : SetDatabaseConnection(c)
    \/ \E a \in AuthStrings, f \in DbFaults, t \in Tokens \cup {NoToken} :
          CreateOrGetSession(a, f, t)
    \/ \E t \in Tokens, f \in DbFaults : GetSession(t, f)
    \/ \E t \in Tokens, f \in DbFaults : Invalidate(t, f)
    \/ \E i \in 1..Len(sessions) :
          \E f \in (IF sessions[i].database THEN Faults ELSE {"none"}) :
             Revalidate(i, f)

Spec == Init /\ [][Next]_vars

\* ------------------------------------------------- concurrent handlers
\* Request threads share one SessionManager and no lock guards its session
\* list: a handler runs as a sequence of steps (the part before the scan, one
\* iteration of the scan, the database query, the part after it) and the
\* steps of different threads interleave.  The database does not fail here.

\* What result holds after a step of a handler that is under way.
Stepped == [NoResult EXCEPT !.op = "step"]

\* The credential strings presented to concurrent handlers: one user logs in
\* from several threads.
ConcurrentAuthStrings == {AliceAuth}

\* The tokens the threads' handlers are working with.
TokensInFlight == {threads[th].token : th \in Threads}

\* The place of session object s in the list ss, 0 when it is not in it.
place_of(ss, s) ==
    LET hits == {i \in 1..Len(ss) : ss[i] = s}
    IN IF hits = {} THEN 0 ELSE CHOOSE i \in hits : \A j \in hits : i <= j

\* get_session, line 467: the handler starts its scan of the list.  The
\* token is one a client can hold: one that a session or a row carries.
BeginGetSession(th, token) ==
    /\ enabled
    /\ threads[th].pc = "idle"
    /\ token \notin UnusedTokens(sessions, db)
    /\ threads' = [threads EXCEPT ![th] =
                      [Idle EXCEPT !.pc = "scan", !.op = "get",
                                   !.token = token, !.i = 1]]
    /\ UNCHANGED <<enabled, database_connection, sessions, logins_since_prune,
                   db, system_permission, now>>
    /\ result' = Stepped

\* create_or_get_session, lines 358-382: c is what counting the login left,
\* tokens what get_db_session_tokens returned; the handler goes on to
\* get_session(token), or returns (rejected) or raises.
BeginLogin(th, validation, fresh, c, tokens) ==
    /\ sessions' = c.sessions
    /\ db' = c.db
    /\ logins_since_prune' = c.logins
    /\ IF c.raised \/ validation.kind # "ok" \/ tokens.ret # "tokens"
       THEN fresh = NoToken /\ threads' = threads
       ELSE /\ IF tokens.tokens = <<>>
               THEN fresh \in UnusedTokens(sessions, db) \ TokensInFlight
               ELSE fresh = NoToken
            /\ threads' = [threads EXCEPT ![th] =
                  [Idle EXCEPT !.pc = "scan", !.op = "create", !.i = 1,
                               !.validation = validation,
                               !.token = IF tokens.tokens = <<>> THEN fresh
                                         ELSE tokens.tokens[1]]]

BeginCreateOrGetSession(th, auth_string, fresh) ==
    /\ enabled
    /\ threads[th].pc = "idle"
    /\ BeginLogin(th, validate(auth_string), fresh,
           count_login(sessions, db, logins_since_prune, database_connection,
                       now, "none"),
           get_db_session_tokens(
               count_login(sessions, db, logins_since_prune,
                           database_connection, now, "none").db,
               database_connection, validate(auth_string).username, "none"))
    /\ UNCHANGED <<enabled, database_connection, system_permission, now>>
    /\ result' = Stepped

\* The handler's get_session returned the session `found` (NoSession for
\* None): get_session's caller has it, create_or_get_session goes on.
Returned(th, found) ==
    IF threads[th].op = "get" THEN Idle
    ELSE [threads[th] EXCEPT !.pc = "login", !.found = found]

\* get_session, lines 470-472: one iteration of `for sess in self.__sessions`,
\* which reads the list by position.
ScanStep(th) ==
    /\ threads[th].pc = "scan"
    /\ threads' = [threads EXCEPT ![th] =
          IF threads[th].i > Len(sessions)
          THEN [threads[th] EXCEPT !.pc = "query"]
          ELSE IF /\ is_alive(sessions[threads[th].i], now)
                  /\ sessions[threads[th].i].token = threads[th].token
          THEN Returned(th, sessions[threads[th].i])
          ELSE [threads[th] EXCEPT !.i = threads[th].i + 1]]
    /\ UNCHANGED <<enabled, database_connection, sessions, logins_since_prune,
                   db, system_permission, now>>
    /\ result' = Stepped

\* get_session, line 475: the query of _get_local_session_from_db.
QueryStep(th) ==
    /\ threads[th].pc = "query"
    /\ threads' = [threads EXCEPT ![th] =
          [threads[th] EXCEPT !.pc = "queried",
              !.local = get_local_session_from_db(db, database_connection,
                            system_permission, threads[th].token, "none")]]
    /\ UNCHANGED <<enabled, database_connection, sessions, logins_since_prune,
                   db, system_permission, now>>
    /\ result' = Stepped

\* get_session, lines 476-481: r is what the append or the invalidate did.
PromoteDone(th, r) ==
    /\ Len(r.sessions) <= MaxSessions
    /\ sessions' = r.sessions
    /\ db' = r.db
    /\ threads' = [threads EXCEPT ![th] = Returned(th, r.sess)]

PromoteStep(th) ==
    /\ threads[th].pc = "queried"
    /\ PromoteDone(th, get_session_from_db(sessions, db, database_connection,
                           threads[th].token, now, "none", threads[th].local))
    /\ UNCHANGED <<enabled, database_connection, logins_since_prune,
                   system_permission, now>>
    /\ result' = Stepped

\* create_or_get_session, lines 384-411: revalidate the session found (rv is
\* what that did, k its place in the list), or make and store a new one.
LoginDone(th, k, rv) ==
    IF threads[th].found # NoSession
    THEN /\ sessions' = IF k = 0 THEN sessions
                        ELSE [sessions EXCEPT ![k] = rv.sess]
         /\ db' = rv.db
    ELSE /\ Len(sessions) < MaxSessions
         /\ sessions' = Append(sessions,
                Session(threads[th].token, threads[th].validation.username,
                        threads[th].validation.groups,
                        threads[th].validation.root, database_connection,
                        now))
         /\ db' = store_record(db, database_connection,
                      SessionRecord(threads[th].token,
                                    threads[th].validation.username,
                                    join(threads[th].validation.groups), now),
                      "none").db

LoginStep(th) ==
    /\ threads[th].pc = "login"
    /\ LoginDone(th, place_of(sessions, threads[th].found),
                 revalidate(threads[th].found, db, now, "none"))
    /\ threads' = [threads EXCEPT ![th] = Idle]
    /\ UNCHANGED <<enabled, database_connection, logins_since_prune,
                   system_permission, now>>
    /\ result' = Stepped

NextConc ==
    \/ Tick
    \/ Restart
    \/ SetDatabaseConnection(TRUE)
    \/ \E th \in Threads, t \in Tokens : BeginGetSession(th, t)
    \/ \E th \in Threads, a \in ConcurrentAuthStrings,
          t \in Tokens \cup {NoToken} : BeginCreateOrGetSession(th, a, t)
    \/ \E th \in Threads : ScanStep(th)
    \/ \E th \in Threads : QueryStep(th)
    \/ \E th \in Threads : PromoteStep(th)
    \/ \E th \in Threads : LoginStep(th)

SpecConc == Init /\ [][NextConc]_vars
\* ------------------------------------------ a scan and an invalidate
\* The scan of get_session in one thread while other threads log users in
\* and invalidate tokens: the logins and the invalidations are taken as one
\* step each, the scan by its iterations.  The database does not fail.
NextScan ==
    \/ Tick
    \/ SetDatabaseConnection(TRUE)
    \/ \E a \in {RootAuth, AliceAuth}, t \in Tokens \cup {NoToken} :
          CreateOrGetSession(a, "none", t)
    \/ \E t \in Tokens : Invalidate(t, "none")
    \/ \E t \in Tokens : BeginGetSession(1, t)
    \/ ScanStep(1)
    \/ QueryStep(1)
    \/ PromoteStep(1)

SpecScan == Init /\ [][NextScan]_vars

\* ------------------------------------------- one process, working store
\* A process that was started with authentication enabled against a database
\* that is connected and does not fail, and that serves one call at a time.
\* The database may hold the record an earlier process stored for a login at
\* time 0.  The process keeps getting login attempts.

\* The tables an earlier process can have left behind.
StoredBefore ==
    {<<>>,
     <<SessionRecord("t1", "alice", join(<<"dev">>), 0)>>,
     <<SessionRecord("t1", "root", join(<<>>), 0)>>}

InitStore ==
    /\ enabled = TRUE
    /\ database_connection = TRUE
    /\ sessions = <<>>
    /\ logins_since_prune = 0
    /\ db \in StoredBefore
    /\ system_permission = {}
    /\ now = 0
    /\ result = NoResult
    /\ threads = [th \in Threads |-> Idle]

\* Some client logs in.
Login ==
    \E a \in AuthStrings, t \in Tokens \cup {NoToken} :
        CreateOrGetSession(a, "none", t)

NextStore ==
    \/ Tick
    \/ Login
    \/ \E t \in Tokens : GetSession(t, "none")
    \/ \E t \in Tokens : Invalidate(t, "none")
    \/ \E i \in 1..Len(sessions) : Revalidate(i, "none")

SpecStore == InitStore /\ [][NextStore]_vars /\ WF_vars(Login)

\* ---------------------------------------------------------------- claims
\* The session a call returned is alive and is in the session list.
ReturnedLiveCached ==
    /\ result.ret = "session"
    /\ is_alive(result.sess, now)
    /\ HasSession(sessions, result.sess.token)

\* C1: get_session returns a session only if that session is alive.
C1_GetSessionReturnsOnlyLive ==
    (result.op = "get" /\ result.ret = "session")
        => is_alive(result.sess, now)

\* C2: create_or_get_session with an accepted credential (a database
\* connected and working) returns a session that is alive and in the
\* session list.
C2_LoginReturnsLiveCachedSession ==
    (result.op = "create" /\ result.valid /\ database_connection
     /\ result.fault = "none") => ReturnedLiveCached

\* C3: create_or_get_session with an accepted credential against a database
\* that throws still returns a live session that is in the session list.
C3_LoginSurvivesStoreFailure ==
    (result.op = "create" /\ result.valid /\ result.fault # "none")
        => ReturnedLiveCached

\* C4: create_or_get_session with an accepted credential and no database
\* connected returns a new live session that is in the session list.
C4_LoginWithoutStore ==
    (result.op = "create" /\ result.valid /\ ~database_connection)
        => ReturnedLiveCached

C9_InvalidateFailureIsBoolean ==
    (result.op = "invalidate" /\ result.fault # "none")
        => (result.ret = "false" /\ ~HasSession(sessions, result.token))

\* C10 (as amended): every create_or_get_session call made with
\* authentication enabled, rejected ones included, advances the login
\* counter; the call in which it reaches logins_until_cleanup runs the
\* pruning pass and leaves the counter 0 (and, unless the pass raised, no
\* dead session in the list), and no other call prunes.
C10_CounterCountsCalls ==
    [][(result'.op = "create" /\ enabled)
          => IF logins_since_prune + 1 >= logins_until_cleanup
             THEN /\ result'.pruned
                  /\ logins_since_prune' = 0
                  /\ result'.fault # "connect"
                        => \A i \in 1..Len(sessions') :
                              is_alive(sessions'[i], now)
             ELSE /\ ~result'.pruned
                  /\ logins_since_prune' = logins_since_prune + 1]_vars

\* C10 witness: a rejected login was the one that pruned.
C10_Witness ==
    /\ result.op = "create" /\ result.ret = "rejected"
    /\ result.pruned /\ logins_since_prune = 0

\* C10 (original): a rejected create_or_get_session call does not advance the
\* login counter.
C10_Original ==
    [][(result'.op = "create" /\ result'.ret = "rejected")
          => logins_since_prune' = logins_since_prune]_vars
\* C5: the session list never holds two live sessions with the same token,
\* also when handlers of several threads interleave.
C5_OneLiveSessionPerToken ==
    \A i, j \in 1..Len(sessions) :
        (i < j /\ sessions[i].token = sessions[j].token)
            => ~(is_alive(sessions[i], now) /\ is_alive(sessions[j], now))

\* C11: the session create_or_get_session returns carries the username, the
\* groups and the root flag of the validation of the credential presented in
\* that call.
C11_LoginCarriesValidation ==
    (result.op = "create" /\ result.ret = "session")
        => /\ result.sess.user = validate(result.auth).username
           /\ result.sess.groups = validate(result.auth).groups
           /\ result.sess.root = validate(result.auth).root

\* C12: revalidate() on a session that is not alive changes nothing: the
\* session keeps its last_access, the database is not written, no exception
\* leaves the call, and the session is still not alive.
C12_RevalidateDeadIsNoOp ==
    [][(result'.op = "revalidate"
        /\ ~is_alive(sessions[result'.idx], now))
          => /\ sessions' = sessions
             /\ db' = db
             /\ result'.ret = "none"
             /\ ~is_alive(sessions'[result'.idx], now')]_vars

\* C12 witness: revalidate() was called on a dead session whose row is in the
\* database.
C12_Witness ==
    /\ result.op = "revalidate"
    /\ result.idx \in 1..Len(sessions)
    /\ ~is_alive(sessions[result.idx], now)
    /\ HasRecord(db, result.token)

\* C13: with authentication disabled, create_or_get_session and get_session
\* return None and change neither the login counter, nor the session list,
\* nor the database.
C13_DisabledIsNoOp ==
    [][(~enabled /\ result'.op \in {"get", "create"})
          => /\ result'.ret = "none"
             /\ result'.path = "disabled"
             /\ sessions' = sessions
             /\ db' = db
             /\ logins_since_prune' = logins_since_prune]_vars

\* C13 witness: a login was made with authentication disabled against a
\* connected database that holds a session record.
C13_Witness ==
    /\ ~enabled
    /\ result.op = "create" /\ result.path = "disabled"
    /\ database_connection /\ Len(db) > 0

\* The validators in the order the claim C14 gives.
ValidatorOrder == <<"root", "dictionary", "pam", "ldap">>

\* The validator is consulted (enabled, available) and accepts the credential
\* string a, whose secret is everything after the username.
Accepts(method, a) ==
    CASE method = "root" -> a = auth_config.method_root
      [] method = "dictionary" ->
            /\ auth_config.method_dictionary.enabled
            /\ "dictionary" \notin UNSUPPORTED_METHODS
            /\ a \in auth_config.method_dictionary.auths
      [] method = "pam" ->
            /\ auth_config.method_pam.enabled
            /\ "pam" \notin UNSUPPORTED_METHODS
            /\ a \in PamAccepts
      [] OTHER -> FALSE

\* What the validator answers for a credential string it accepts.
AnswerOf(method, a) ==
    CASE method = "root" -> Validation(a[1], <<>>, TRUE)
      [] method = "dictionary" ->
            Validation(a[1], auth_config.method_dictionary.groups[a[1]],
                       FALSE)
      [] OTHER -> Validation(a[1], <<>>, FALSE)

\* The answer of the first validator of the order that accepts, Rejected
\* when none does.
FirstAcceptance(a) ==
    LET acc == SelectSeq(ValidatorOrder, LAMBDA m : Accepts(m, a))
    IN IF acc = <<>> THEN Rejected ELSE AnswerOf(acc[1], a)

\* C14: the validation of a credential is the answer of the first validator
\* in the order root, dictionary, PAM, LDAP that accepts it, and the login is
\* rejected if and only if no validator accepts it.
C14_FirstAcceptingValidatorWins ==
    (result.op = "create" /\ result.path # "disabled"
     /\ result.fault = "none")
        => /\ validate(result.auth) = FirstAcceptance(result.auth)
           /\ result.valid <=> (FirstAcceptance(result.auth) # Rejected)
           /\ (result.ret = "rejected")
                 <=> (FirstAcceptance(result.auth) = Rejected)

\* The session list holds a session with the token that is not alive.
DeadCached(token) ==
    \E i \in 1..Len(sessions) :
        sessions[i].token = token /\ ~is_alive(sessions[i], now)

\* The database holds a row with the token whose last_access is older than
\* the session lifetime.
DeadStored(token) ==
    \E i \in 1..Len(db) :
        db[i].token = token /\ now - db[i].last_access > session_lifetime

\* Neither the session list nor the database holds the token.
Absent(token) == ~HasSession(sessions, token) /\ ~HasRecord(db, token)

\* C15 (as amended): while logins keep coming and the database works, a dead
\* session that is in the session list is eventually gone from the session
\* list and from the database.
C15_DeadCachedEventuallyRemoved ==
    \A token \in Tokens : DeadCached(token) ~> Absent(token)

\* C15 witness: a dead session is in the list, its row is in the database,
\* and the next login runs the pruning pass.
C15_Witness ==
    /\ \E token \in Tokens : DeadCached(token) /\ HasRecord(db, token)
    /\ logins_since_prune = logins_until_cleanup - 1

\* C15 (original): while logins keep coming and the database works, every
\* dead record, also one that only the database holds, is eventually gone
\* from the session list and from the database.
C15_Original ==
    \A token \in Tokens :
        (DeadCached(token) \/ DeadStored(token)) ~> Absent(token)

\* C16: a pruning pass with a connected database that does not fail leaves
\* the login counter at 0, removes exactly the dead sessions from the session
\* list, deletes exactly the rows that carry a dead session's token, and
\* leaves every other session and row as it was.  (Seen on the logins that do
\* nothing after the pass: the rejected ones.)
C16_PruningFrame ==
    [][(/\ result'.op = "create" /\ result'.pruned
        /\ result'.ret = "rejected"
        /\ result'.fault = "none" /\ database_connection)
          => /\ logins_since_prune' = 0
             /\ sessions' = SelectSeq(sessions, LAMBDA s : is_alive(s, now))
             /\ db' = SelectSeq(db, LAMBDA r :
                         ~\E i \in 1..Len(sessions) :
                             /\ ~is_alive(sessions[i], now)
                             /\ sessions[i].token = r.token)]_vars

\* C16 witness: a pass removed a dead session and kept a live one.
C16_Witness ==
    /\ result.op = "create" /\ result.pruned /\ result.had
    /\ result.ret = "rejected"
    /\ result.fault = "none" /\ database_connection
    /\ Len(sessions) > 0 /\ Len(db) > 0

\* C17: one process serving one call at a time against a connected database
\* that does not fail: the database never holds two rows for one username,
\* and a login of a user who has a live session in the session list returns
\* that session's token and adds no session and no row.
C17_OneRecordPerUser ==
    [][/\ \A i, j \in 1..Len(db') :
             i < j => db'[i].user_name # db'[j].user_name
       /\ \A k \in 1..Len(sessions) :
             (/\ result'.op = "create" /\ result'.ret = "session"
              /\ is_alive(sessions[k], now)
              /\ sessions[k].user = get_user_name(result'.auth))
                => /\ result'.token = sessions[k].token
                   /\ \A i \in 1..Len(sessions') :
                         HasSession(sessions, sessions'[i].token)
                   /\ \A i \in 1..Len(db') : HasRecord(db, db'[i].token)]_vars

\* C17 witness: a user who has a live session and its row logged in again,
\* while the session list and the database had room for one more.
C17_Witness ==
    /\ result.op = "create" /\ result.path = "reused"
    /\ Len(sessions) = 1 /\ Len(db) = 1
    /\ sessions[1].user = get_user_name(result.auth)

\* C18: the scan of get_session(t) skips no element: when it ends without a
\* hit, the session list holds no live session with token t, whatever tokens
\* other threads invalidated meanwhile.
C18_ScanSkipsNoSession ==
    [][\A th \in Threads :
          (/\ threads[th].op = "get"
           /\ threads[th].pc = "scan" /\ threads'[th].pc = "query")
             => cached_session(sessions, threads[th].token, now).idx = 0]_vars

C20_GroupsRoundTrip ==
    (result.op = "get" /\ result.path = "db_live")
        => \A a \in AuthStrings :
              (/\ validate(a).kind = "ok"
               /\ validate(a).username = result.sess.user)
                 => result.sess.groups = validate(a).groups

\* C21: for a credential string with more than one colon the validators take
\* the text before the first colon as the username and the rest as the
\* secret, and the validation ends in an acceptance or a rejection: no
\* exception leaves it.
C21_SplitOnFirstColon ==
    (/\ result.op = "create" /\ result.path # "disabled"
     /\ result.fault = "none" /\ Len(result.auth) > 2)
        => /\ validate(result.auth).kind \in {"ok", "rejected"}
           /\ validate(result.auth).kind = "ok"
                 => validate(result.auth).username = result.auth[1]
           /\ result.valid \/ result.ret = "rejected"
====
